---- MODULE Spec2Model ----
(***************************************************************************)
(* Model of pyrl/agents/modelbased.py: ModelBasedAgent, the controller of  *)
(* a model-based reinforcement-learning agent.  The agent's attributes are *)
(* the variables, every lifecycle method is one action, and the State      *)
(* Encoder (getDiscState) and the exploration policy (getAction) are       *)
(* operators computed the way the code computes them.                      *)
(*                                                                         *)
(* Real numbers are carried in tenths: 5 stands for 0.5, 10 for 1.0.  An   *)
(* integer written into a numpy float array is converted by ToFloat.       *)
(***************************************************************************)
EXTENDS Integers, Sequences, FiniteSets, TLC

VARIABLES
    numStates,        \* self.numStates: number of continuous observations
    discStates,       \* self.discStates: sequence of <<min, max>> pairs
    numDiscStates,    \* self.numDiscStates
    numActions,       \* self.numActions
    model,            \* self.model
    planner,          \* self.planner
    lastAction,       \* self.lastAction: reference to an Action object
    lastObservation,  \* self.lastObservation: reference to an Observation object
    epsilon,          \* self.epsilon, in units of 1/EpsDen
    planner_class,    \* self.planner_class: the planner implementation plugged in
    heap,             \* the objects the references above and the caller's point to
    phase,            \* position of the environment driver in the lifecycle protocol
    lastCall,         \* the lifecycle call made last, with its arguments
    result,           \* how that call ended: the value returned or the exception raised
    callLog,          \* the collaborator calls that call made, in order
    episode           \* the steps of the episode under way and what the planner got in it

vars == <<numStates, discStates, numDiscStates, numActions, model, planner,
          lastAction, lastObservation, epsilon, planner_class, heap, phase,
          lastCall, result, callLog, episode>>

agentFields == <<numStates, discStates, numDiscStates, numActions, model,
                 planner, lastAction, lastObservation>>

(***************************************************************************)
(* Bounds of the model.                                                    *)
(***************************************************************************)
MaxDims == 2
MaxVal == 2
EpsDen == 1
MaxSteps == 2

FloatUnit == 10
ToFloat(i) == i * FloatUnit

\* the attribute has not been assigned yet (discStates then reads <<>>)
NoAttr == -1
\* Python values whose type the code or a collaborator can tell apart
PyNone == [type |-> "NoneType", val |-> <<>>]
PyArray(v) == [type |-> "ndarray", val |-> v]

(***************************************************************************)
(* Task specifications, as TaskSpecVRLGLUE3.TaskSpecParser presents them.  *)
(***************************************************************************)
Num(n) == [tag |-> "num", val |-> n]
Special(s) == [tag |-> s, val |-> 0]
isSpecial(b) == b.tag \in {"UNSPEC", "NEGINF", "POSINF"}

Ranges == {r \in (0..MaxVal) \X (0..MaxVal) : r[1] <= r[2]}
SeqsUpTo(S, n) == UNION {[1..k -> S] : k \in 0..n}
DimSets == SeqsUpTo(Ranges, MaxDims)
ContRange == <<0, 10>>
RewardRange == <<-10, 10>>

TaskSpecOf(v, dobs, iobs, iacts, dacts) ==
    [valid |-> v, doubleObs |-> dobs, intObs |-> iobs, intActions |-> iacts,
     doubleActions |-> dacts, rewardRange |-> RewardRange]

\* every well-formed discrete dimension set, with a one-dimensional action space
EncTaskSpecs ==
    {TaskSpecOf(TRUE, <<ContRange>>, iobs, <<<<Num(0), Num(1)>>>>, <<>>) : iobs \in DimSets}

(***************************************************************************)
(* State Encoder.                                                          *)
(***************************************************************************)
\* the lambda of line 62, and reduce folding it over the dimensions
countStep(a, b) == a * (b[2] - b[1] + 1)

RECURSIVE reduce(_, _)
reduce(s, acc) == IF s = <<>> THEN acc ELSE reduce(Tail(s), countStep(acc, Head(s)))

NumDiscStatesOf(ds) == reduce(ds, 1)

RECURSIVE cumprod(_)
cumprod(s) ==
    IF s = <<>> THEN <<>>
    ELSE LET p == cumprod(SubSeq(s, 1, Len(s) - 1))
         IN  Append(p, (IF p = <<>> THEN 1 ELSE p[Len(p)]) * s[Len(s)])

Reversed(s) == [k \in 1..Len(s) |-> s[Len(s) + 1 - k]]
\* s[:0:-1]: from the last element down to, and without, the first
RevTail(s) == [k \in 1..(Len(s) - 1) |-> s[Len(s) + 1 - k]]

RECURSIVE sum(_)
sum(s) == IF s = <<>> THEN 0 ELSE Head(s) + sum(Tail(s))

\* faulty variant: place values taken from the earlier dimensions
multipliers_fromFront(sizes) ==
    Append(Reversed(cumprod(Reversed(SubSeq(sizes, 1, Len(sizes) - 1)))), 1)
\* line 113: list(mxs[:0:-1].cumprod()[::-1]) + [1]
multipliers(sizes) == Append(Reversed(cumprod(RevTail(sizes))), 1)

encode(ds, state) ==
    LET sizes == [i \in 1..Len(ds) |-> ds[i][2] - ds[i][1] + 1]
        mxs == multipliers(sizes)
        x == [i \in 1..Len(ds) |-> state[i] - ds[i][1]]
    IN  sum([i \in 1..Len(ds) |-> x[i] * mxs[i]])

\* faulty variants: without the test of line 110; without the shift of line 114
getDiscState_noGuard(ds, nds, state) == encode(ds, state)
getDiscState_noShift(ds, nds, state) ==
    IF nds > 1
    THEN LET sizes == [i \in 1..Len(ds) |-> ds[i][2] - ds[i][1] + 1]
             mxs == multipliers(sizes)
         IN  sum([i \in 1..Len(ds) |-> state[i] * mxs[i]])
    ELSE 0
getDiscState(ds, nds, state) == IF nds > 1 THEN encode(ds, state) ELSE 0

(***************************************************************************)
(* Objects.  The caller owns the observation it passes in and the action   *)
(* it is handed back; the agent owns the objects it creates itself.        *)
(***************************************************************************)
ObjIds == {"envObs", "envAct", "agentObs", "agentAct"}
EmptyObj == [intArray |-> <<>>, doubleArray |-> <<>>]
ActionObj(a) == [intArray |-> <<a>>, doubleArray |-> <<>>]

\* copy.deepcopy into a field: a new object that nothing else refers to
\* (faulty variant: the field refers to the caller's own object)
deepcopy_alias(h, src, own) == [ref |-> src, heap |-> h]
deepcopy(h, src, own) == [ref |-> own, heap |-> [h EXCEPT ![own] = h[src]]]

(***************************************************************************)
(* Outcome of a call, and the record of the collaborator calls it made.    *)
(***************************************************************************)
Returned(v) == [kind |-> "return", exc |-> "", msg |-> "", value |-> v]
Raised(e, m) == [kind |-> "raise", exc |-> e, msg |-> m, value |-> <<>>]

\* what the constructors of the plugged-in classes hand back
\* (faulty variant: the two counts handed over in each other's place)
ModelInstance_countsSwapped(nds, dobs, na, rmin) ==
    [type |-> "Model", numDiscStates |-> na, doubleObs |-> dobs,
     numActions |-> nds, rewardMin |-> rmin]
ModelInstance(nds, dobs, na, rmin) ==
    [type |-> "Model", numDiscStates |-> nds, doubleObs |-> dobs,
     numActions |-> na, rewardMin |-> rmin]
PlannerInstance(cls, g, m) == [type |-> "Planner", class |-> cls, gamma |-> g, model |-> m]
Construct(inst) == [op |-> "construct", instance |-> inst]
UpdateExperience(s, a, sp, r) ==
    [op |-> "updateExperience", state |-> s, action |-> a, nextState |-> sp, reward |-> r]
GetAction(s) == [op |-> "getAction", state |-> s]
RandomDraw(u) == [op |-> "random", value |-> u]
RandInt(lo, hi, a) == [op |-> "randint", lo |-> lo, hi |-> hi, value |-> a]

\* the next-state kinds of the experience tuples among the calls of log, in order
RECURSIVE Delivered(_)
Delivered(log) ==
    IF log = <<>> THEN <<>>
    ELSE (IF Head(log).op = "updateExperience" THEN <<Head(log).nextState.type>> ELSE <<>>)
            \o Delivered(Tail(log))
NoEpisode == [steps |-> 0, tuples |-> <<>>]

gamma == 99

(***************************************************************************)
(* __init__                                                                *)
(***************************************************************************)
StubAction == 1
PlannerClasses == {[kind |-> "stub", action |-> StubAction], [kind |-> "fitted", action |-> 0]}

Init ==
    /\ numStates = NoAttr
    /\ discStates = <<>>
    /\ numDiscStates = NoAttr
    /\ numActions = NoAttr
    /\ model = PyNone
    /\ planner = PyNone
    /\ lastAction = "agentAct"
    /\ lastObservation = "agentObs"
    /\ epsilon = 0
    /\ planner_class \in PlannerClasses
    /\ heap = [o \in ObjIds |-> EmptyObj]
    /\ phase = "Uninitialized"
    /\ lastCall = [op |-> "__init__"]
    /\ result = Returned(<<>>)
    /\ callLog = <<>>
    /\ episode = NoEpisode

(***************************************************************************)
(* agent_init                                                              *)
(***************************************************************************)
\* the first check of agent_init that stops the call, or "" when none does
\* (faulty variant: without the assert of line 66)
initFailure_noDoubleActionCheck(ts) ==
    IF ~ts.valid THEN "unparsed"
    ELSE IF Len(ts.doubleObs) + Len(ts.intObs) = 0 THEN "observations"
    ELSE IF Len(ts.intActions) # 1 THEN "intActions"
    ELSE IF isSpecial(ts.intActions[1][1]) THEN "minSpecial"
    ELSE IF isSpecial(ts.intActions[1][2]) THEN "maxSpecial"
    ELSE ""
initFailure(ts) ==
    IF ~ts.valid THEN "unparsed"
    ELSE IF Len(ts.doubleObs) + Len(ts.intObs) = 0 THEN "observations"
    ELSE IF Len(ts.intActions) # 1 THEN "intActions"
    ELSE IF Len(ts.doubleActions) # 0 THEN "doubleActions"
    ELSE IF isSpecial(ts.intActions[1][1]) THEN "minSpecial"
    ELSE IF isSpecial(ts.intActions[1][2]) THEN "maxSpecial"
    ELSE ""

initError(f) ==
    CASE f = "unparsed" ->
            Raised("NameError", "global name 'taskSpecString' is not defined")
      [] f = "observations" ->
            Raised("AssertionError", "expecting at least one continuous or discrete observation")
      [] f = "intActions" ->
            Raised("AssertionError", "expecting 1-dimensional discrete actions")
      [] f = "doubleActions" ->
            Raised("AssertionError", "expecting no continuous actions")
      [] f = "minSpecial" ->
            Raised("AssertionError", " expecting min action to be a number not a special value")
      [] f = "maxSpecial" ->
            Raised("AssertionError", " expecting max action to be a number not a special value")

agent_init(taskSpec) ==
    /\ phase \in {"Uninitialized", "CleanedUp"}
    /\ LET f == initFailure(taskSpec)
           \* lines 60-62 have run when a later check, or none, stops the call
           dimsSet == f \notin {"unparsed", "observations"}
           nds == NumDiscStatesOf(taskSpec.intObs)
           na == taskSpec.intActions[1][2].val + 1
           m == ModelInstance(nds, taskSpec.doubleObs, na, taskSpec.rewardRange[1])
           p == PlannerInstance(planner_class, gamma, m)
       IN  /\ lastCall' = [op |-> "agent_init", taskSpec |-> taskSpec]
           /\ numStates' = IF dimsSet THEN Len(taskSpec.doubleObs) ELSE numStates
           /\ discStates' = IF dimsSet THEN taskSpec.intObs ELSE discStates
           /\ numDiscStates' = IF dimsSet THEN nds ELSE numDiscStates
           /\ IF f = ""
              THEN /\ numActions' = na
                   /\ model' = m
                   /\ planner' = p
                   /\ callLog' = <<Construct(m), Construct(p)>>
                   /\ lastAction' = "agentAct"
                   /\ lastObservation' = "agentObs"
                   /\ heap' = [heap EXCEPT !["agentAct"] = EmptyObj, !["agentObs"] = EmptyObj]
                   /\ result' = Returned(<<>>)
                   /\ phase' = "Ready"
                   /\ episode' = NoEpisode
              ELSE /\ result' = initError(f)
                   /\ callLog' = <<>>
                   /\ phase' = "Failed"
                   /\ UNCHANGED <<numActions, model, planner, lastAction, lastObservation, heap,
                                  episode>>
           /\ UNCHANGED <<epsilon, planner_class>>

(***************************************************************************)
(* A direct call of the State Encoder on a freshly initialized agent (the  *)
(* encoder reads discStates and numDiscStates and writes nothing).         *)
(***************************************************************************)
EncInputs(ds) == [1..Len(ds) -> 0..MaxVal]

getDiscStateCall(state) ==
    /\ phase = "Ready"
    /\ lastCall.op = "agent_init"
    /\ lastCall' = [op |-> "getDiscState", state |-> state]
    /\ result' = Returned(<<getDiscState(discStates, numDiscStates, state)>>)
    /\ callLog' = <<>>
    /\ UNCHANGED <<agentFields, epsilon, planner_class, heap, phase, episode>>

EncInitCall == \E ts \in EncTaskSpecs : agent_init(ts)
EncCall == \E state \in EncInputs(discStates) : getDiscStateCall(state)
EncNext == EncInitCall \/ EncCall
SpecEnc == Init /\ [][EncNext]_vars

(***************************************************************************)
(* Planner (pyrl.agents.planners): what its two methods can do.  A stub    *)
(* always selects one action and never fails; the fitted planner selects   *)
(* any action of the range and may raise.                                  *)
(***************************************************************************)
PlannerGetAction(p, na) ==
    IF p.class.kind = "stub"
    THEN {Returned(<<p.class.action>>)}
    ELSE {Returned(<<a>>) : a \in 0..(na - 1)} \cup {Raised("PlannerError", "getAction")}

PlannerUpdateExperience(p) ==
    IF p.class.kind = "stub"
    THEN {Returned(<<>>)}
    ELSE {Returned(<<>>), Raised("PlannerError", "updateExperience")}

(***************************************************************************)
(* Fusion and the exploration policy.                                      *)
(***************************************************************************)
\* numpy.zeros((n + 1,)), then [0] = discState and [1:] = state
\* (faulty variant: the discrete index written last)
fuse_discLast(n, discState, state) ==
    [i \in 1..(n + 1) |-> IF i = n + 1 THEN ToFloat(discState) ELSE state[i]]
\* (faulty variant: the continuous features written back to front)
fuse_featuresReversed(n, discState, state) ==
    [i \in 1..(n + 1) |-> IF i = 1 THEN ToFloat(discState) ELSE state[n + 2 - i]]
fuse(n, discState, state) ==
    [i \in 1..(n + 1) |-> IF i = 1 THEN ToFloat(discState) ELSE state[i - 1]]

\* every way getAction can end: the calls it makes and what it hands back
\* (faulty variant: the test of line 92 always taken)
getAction_alwaysExplore(state, discState) ==
    {[log |-> <<RandomDraw(u), RandInt(0, numActions - 1, a)>>, res |-> Returned(<<a>>)] :
        u \in 0..(EpsDen - 1), a \in 0..(numActions - 1)}
\* (faulty variant: line 92 with <= in place of <)
getAction_exploreOnEqual(state, discState) ==
    LET s == fuse(Len(state), discState, state)
        explore(u) ==
            {[log |-> <<RandomDraw(u), RandInt(0, numActions - 1, a)>>,
              res |-> Returned(<<a>>)] : a \in 0..(numActions - 1)}
        exploit(u) ==
            {[log |-> <<RandomDraw(u), GetAction(s)>>, res |-> r] :
                r \in PlannerGetAction(planner, numActions)}
    IN  UNION {IF u <= epsilon THEN explore(u) ELSE exploit(u) : u \in 0..(EpsDen - 1)}
getAction(state, discState) ==
    LET s == fuse(Len(state), discState, state)
        explore(u) ==
            {[log |-> <<RandomDraw(u), RandInt(0, numActions - 1, a)>>,
              res |-> Returned(<<a>>)] : a \in 0..(numActions - 1)}
        exploit(u) ==
            {[log |-> <<RandomDraw(u), GetAction(s)>>, res |-> r] :
                r \in PlannerGetAction(planner, numActions)}
    IN  UNION {IF u < epsilon THEN explore(u) ELSE exploit(u) : u \in 0..(EpsDen - 1)}

(***************************************************************************)
(* The environment driver: the observations and rewards it sends.          *)
(***************************************************************************)
ContVals == {5, 7}
Rewards == {10, 20}
Combos(ds) == {c \in [1..Len(ds) -> 0..MaxVal] : \A i \in 1..Len(ds) : ds[i][1] <= c[i] /\ c[i] <= ds[i][2]}
Observations ==
    {[intArray |-> ia, doubleArray |-> da] :
        ia \in Combos(discStates), da \in [1..numStates -> ContVals]}

(***************************************************************************)
(* agent_start                                                             *)
(***************************************************************************)
\* lines 130-136 and 167-172: wrap the action, store copies, hand it back
\* (faulty variant: line 134 left out, the stored observation not replaced)
storeContext_actionOnly(h, a) ==
    LET h1 == [h EXCEPT !["envAct"] = ActionObj(a)]
        ca == deepcopy(h1, "envAct", "agentAct")
    IN  [lastAction |-> ca.ref, lastObservation |-> lastObservation, heap |-> ca.heap]
storeContext(h, a) ==
    LET h1 == [h EXCEPT !["envAct"] = ActionObj(a)]
        ca == deepcopy(h1, "envAct", "agentAct")
        co == deepcopy(ca.heap, "envObs", "agentObs")
    IN  [lastAction |-> ca.ref, lastObservation |-> co.ref, heap |-> co.heap]

agent_start(observation) ==
    /\ phase \in {"Ready", "InEpisode"}
    /\ lastCall' = [op |-> "agent_start", observation |-> observation]
    /\ LET h == [heap EXCEPT !["envObs"] = observation]
           theState == h["envObs"].doubleArray
           d == getDiscState(discStates, numDiscStates, h["envObs"].intArray)
       IN  \E out \in getAction(theState, d) :
              /\ callLog' = out.log
              /\ result' = out.res
              /\ IF out.res.kind = "return"
                 THEN LET st == storeContext(h, out.res.value[1])
                      IN  /\ lastAction' = st.lastAction
                          /\ lastObservation' = st.lastObservation
                          /\ heap' = st.heap
                          /\ phase' = "InEpisode"
                 ELSE /\ heap' = h
                      /\ phase' = "Failed"
                      /\ UNCHANGED <<lastAction, lastObservation>>
    /\ episode' = [steps |-> 0, tuples |-> Delivered(callLog')]
    /\ UNCHANGED <<numStates, discStates, numDiscStates, numActions, model, planner,
                   epsilon, planner_class>>

(***************************************************************************)
(* agent_step                                                              *)
(***************************************************************************)
\* lines 148-164: the experience tuple agent_step hands to the planner
\* (faulty variant: the new observation used for the previous state too)
stepExperience_newAsPrevious(h, reward) ==
    LET newState == h["envObs"].doubleArray
        newDiscState == getDiscState(discStates, numDiscStates, h["envObs"].intArray)
        phi_tp == fuse(numStates, newDiscState, newState)
    IN  UpdateExperience(PyArray(phi_tp), h[lastAction].intArray[1], PyArray(phi_tp), reward)
\* (faulty variant: None handed over as the next state)
stepExperience_noNextState(h, reward) ==
    LET lastState == h[lastObservation].doubleArray
        lastAct == h[lastAction].intArray[1]
        lastDiscState == getDiscState(discStates, numDiscStates, h[lastObservation].intArray)
        phi_t == fuse(numStates, lastDiscState, lastState)
    IN  UpdateExperience(PyArray(phi_t), lastAct, PyNone, reward)
stepExperience(h, reward) ==
    LET newState == h["envObs"].doubleArray
        lastState == h[lastObservation].doubleArray
        lastAct == h[lastAction].intArray[1]
        newDiscState == getDiscState(discStates, numDiscStates, h["envObs"].intArray)
        lastDiscState == getDiscState(discStates, numDiscStates, h[lastObservation].intArray)
        phi_t == fuse(numStates, lastDiscState, lastState)
        phi_tp == fuse(numStates, newDiscState, newState)
    IN  UpdateExperience(PyArray(phi_t), lastAct, PyArray(phi_tp), reward)

agent_step(reward, observation) ==
    /\ phase = "InEpisode"
    /\ episode.steps < MaxSteps
    /\ lastCall' = [op |-> "agent_step", reward |-> reward, observation |-> observation]
    /\ LET h == [heap EXCEPT !["envObs"] = observation]
           newState == h["envObs"].doubleArray
           newDiscState == getDiscState(discStates, numDiscStates, h["envObs"].intArray)
           upd == stepExperience(h, reward)
       IN  \E u \in PlannerUpdateExperience(planner) :
           \E out \in getAction(newState, newDiscState) :
              /\ IF u.kind = "raise"
                 THEN /\ callLog' = <<upd>>
                      /\ result' = u
                      /\ heap' = h
                      /\ phase' = "Failed"
                      /\ UNCHANGED <<lastAction, lastObservation>>
                 ELSE /\ callLog' = <<upd>> \o out.log
                      /\ result' = out.res
                      /\ IF out.res.kind = "return"
                         THEN LET st == storeContext(h, out.res.value[1])
                              IN  /\ lastAction' = st.lastAction
                                  /\ lastObservation' = st.lastObservation
                                  /\ heap' = st.heap
                                  /\ phase' = "InEpisode"
                         ELSE /\ heap' = h
                              /\ phase' = "Failed"
                              /\ UNCHANGED <<lastAction, lastObservation>>
    /\ episode' = [steps |-> episode.steps + 1,
                   tuples |-> episode.tuples \o Delivered(callLog')]
    /\ UNCHANGED <<numStates, discStates, numDiscStates, numActions, model, planner,
                   epsilon, planner_class>>

(***************************************************************************)
(* agent_end                                                               *)
(***************************************************************************)
\* lines 180-188: the experience tuple agent_end hands to the planner
\* (faulty variant: a zero vector in place of None)
endExperience_zeroNext(reward) ==
    LET lastState == heap[lastObservation].doubleArray
        lastDiscState == getDiscState(discStates, numDiscStates, heap[lastObservation].intArray)
        phi_t == fuse(numStates, lastDiscState, lastState)
    IN  UpdateExperience(PyArray(phi_t), heap[lastAction].intArray[1],
                         PyArray([i \in 1..(numStates + 1) |-> 0]), reward)
\* (faulty variant: built from the caller's observation object)
endExperience_callerObservation(reward) ==
    LET lastState == heap["envObs"].doubleArray
        lastAct == heap[lastAction].intArray[1]
        lastDiscState == getDiscState(discStates, numDiscStates, heap["envObs"].intArray)
        phi_t == fuse(numStates, lastDiscState, lastState)
    IN  UpdateExperience(PyArray(phi_t), lastAct, PyNone, reward)
endExperience(reward) ==
    LET lastState == heap[lastObservation].doubleArray
        lastAct == heap[lastAction].intArray[1]
        lastDiscState == getDiscState(discStates, numDiscStates, heap[lastObservation].intArray)
        phi_t == fuse(numStates, lastDiscState, lastState)
    IN  UpdateExperience(PyArray(phi_t), lastAct, PyNone, reward)

\* (faulty variant: the stored action and observation emptied at the end)
agent_end_clearsContext(reward) ==
    /\ phase = "InEpisode"
    /\ lastCall' = [op |-> "agent_end", reward |-> reward]
    /\ LET upd == endExperience(reward)
       IN  \E u \in PlannerUpdateExperience(planner) :
              /\ callLog' = <<upd>>
              /\ result' = u
              /\ phase' = IF u.kind = "return" THEN "Ready" ELSE "Failed"
    /\ episode' = [episode EXCEPT !.tuples = @ \o Delivered(callLog')]
    /\ heap' = [heap EXCEPT ![lastAction] = EmptyObj, ![lastObservation] = EmptyObj]
    /\ UNCHANGED <<agentFields, epsilon, planner_class>>
agent_end(reward) ==
    /\ phase = "InEpisode"
    /\ lastCall' = [op |-> "agent_end", reward |-> reward]
    /\ LET upd == endExperience(reward)
       IN  \E u \in PlannerUpdateExperience(planner) :
              /\ callLog' = <<upd>>
              /\ result' = u
              /\ phase' = IF u.kind = "return" THEN "Ready" ELSE "Failed"
    /\ episode' = [episode EXCEPT !.tuples = @ \o Delivered(callLog')]
    /\ UNCHANGED <<agentFields, epsilon, planner_class, heap>>

(***************************************************************************)
(* agent_cleanup, agent_message                                            *)
(***************************************************************************)
\* (faulty variant: a cleanup that forgets the task's dimensions)
agent_cleanup_forgetsTask ==
    /\ phase = "Ready"
    /\ lastCall' = [op |-> "agent_cleanup"]
    /\ result' = Returned(<<>>)
    /\ callLog' = <<>>
    /\ phase' = "CleanedUp"
    /\ numStates' = NoAttr
    /\ discStates' = <<>>
    /\ numDiscStates' = NoAttr
    /\ numActions' = NoAttr
    /\ UNCHANGED <<model, planner, lastAction, lastObservation, epsilon, planner_class, heap,
                   episode>>
agent_cleanup ==
    /\ phase = "Ready"
    /\ lastCall' = [op |-> "agent_cleanup"]
    /\ result' = Returned(<<>>)
    /\ callLog' = <<>>
    /\ phase' = "CleanedUp"
    /\ UNCHANGED <<agentFields, epsilon, planner_class, heap, episode>>

Messages == {"", "freeze learning"}

agent_message(inMessage) ==
    /\ phase = "Ready"
    /\ lastCall' = [op |-> "agent_message", inMessage |-> inMessage]
    /\ result' = Returned(<<"ModelBasedAgent(Python) does not understand your message.">>)
    /\ callLog' = <<>>
    /\ UNCHANGED <<agentFields, epsilon, planner_class, heap, phase, episode>>

(***************************************************************************)
(* What the caller does between calls: it reuses its own observation and   *)
(* action objects, and it may set the exploration rate of the agent.       *)
(***************************************************************************)
EnvMutate ==
    /\ phase = "InEpisode"
    /\ heap["envObs"] = lastCall.observation
    /\ heap["envAct"] = ActionObj(result.value[1])
    /\ \/ \E o \in Observations : heap' = [heap EXCEPT !["envObs"] = o]
       \/ \E a \in 0..(numActions - 1) : heap' = [heap EXCEPT !["envAct"] = ActionObj(a)]
    /\ heap' # heap
    /\ UNCHANGED <<agentFields, epsilon, planner_class, phase, lastCall, result, callLog, episode>>

SetEpsilon ==
    /\ phase = "Uninitialized"
    /\ \E e \in 0..EpsDen : epsilon' = e
    /\ epsilon' # epsilon
    /\ UNCHANGED <<agentFields, planner_class, heap, phase, lastCall, result, callLog, episode>>

(***************************************************************************)
(* The lifecycle specification.                                            *)
(***************************************************************************)
\* the observation spaces tried: <<continuous ranges, discrete dimensions>>
ObsConfigs ==
    {<<<<>>, <<>>>>,
     <<<<ContRange>>, <<<<0, 1>>>>>>,
     <<<<>>, <<<<1, 2>>, <<0, 1>>>>>>,
     <<<<ContRange, ContRange>>, <<>>>>}
IntActionSets ==
    {<<>>, <<<<Num(0), Num(1)>>>>,
     <<<<Special("NEGINF"), Num(1)>>>>, <<<<Num(0), Special("POSINF")>>>>,
     <<<<Num(0), Num(1)>>, <<Num(0), Num(1)>>>>}
DoubleActionSets == {<<>>, <<ContRange>>}
\* what the parser holds of a string it could not parse is of no account
UnparsedSpec == TaskSpecOf(FALSE, <<>>, <<>>, <<>>, <<>>)
TaskSpecs ==
    {UnparsedSpec} \cup
    {TaskSpecOf(TRUE, oc[1], oc[2], iacts, dacts) :
        oc \in ObsConfigs, iacts \in IntActionSets, dacts \in DoubleActionSets}

InitCall == \E ts \in TaskSpecs : agent_init(ts)
StartCall == \E o \in Observations : agent_start(o)
StepCall == \E r \in Rewards, o \in Observations : agent_step(r, o)
EndCall == \E r \in Rewards : agent_end(r)
MessageCall == \E m \in Messages : agent_message(m)

Next ==
    \/ InitCall
    \/ StartCall
    \/ StepCall
    \/ EndCall
    \/ agent_cleanup
    \/ MessageCall
    \/ EnvMutate
    \/ SetEpsilon

Spec == Init /\ [][Next]_vars

(***************************************************************************)
(* Properties of the State Encoder (checked under SpecEnc).                *)
(***************************************************************************)
EncodedNow(c) == getDiscState(discStates, numDiscStates, c)
EncoderCalled == lastCall.op = "getDiscState"
EncodedImage == {EncodedNow(c) : c \in Combos(discStates)}

\* C1: on the dimension set agent_init has fixed, getDiscState is a bijection
\* between the combinations of in-range values and 0..numDiscStates-1: as
\* many indices as combinations (distinct combinations get distinct
\* indices), the indices are exactly 0..numDiscStates-1, and numDiscStates
\* is the number of combinations.
C1_Bijection ==
    phase = "Ready" =>
        /\ numDiscStates = Cardinality(Combos(discStates))
        /\ Cardinality(EncodedImage) = Cardinality(Combos(discStates))
        /\ EncodedImage = 0..(numDiscStates - 1)
        /\ (EncoderCalled /\ lastCall.state \in Combos(discStates))
              => result.value[1] \in 0..(numDiscStates - 1)

C1_Witness ==
    /\ EncoderCalled
    /\ discStates = <<<<1, 2>>, <<0, 2>>>>
    /\ numDiscStates = 6
    /\ lastCall.state = <<2, 2>>
    /\ result.value = <<5>>

\* the product of (max_j - min_j + 1) over the dimensions after i
RECURSIVE LaterSizes(_, _)
LaterSizes(ds, i) ==
    IF i >= Len(ds) THEN 1
    ELSE (ds[i + 1][2] - ds[i + 1][1] + 1) * LaterSizes(ds, i + 1)

RECURSIVE MixedRadix(_, _, _)
MixedRadix(ds, c, i) ==
    IF i > Len(ds) THEN 0
    ELSE (c[i] - ds[i][1]) * LaterSizes(ds, i) + MixedRadix(ds, c, i + 1)

\* C2: with numDiscStates > 1 the index returned is the sum of
\* (value_i - min_i) * m_i, m_i the product of the sizes of the later
\* dimensions; on [[0,1],[0,2]] the six combinations map to 0..5 in order.
C2_MixedRadix ==
    (EncoderCalled /\ numDiscStates > 1) =>
        /\ result.value = <<MixedRadix(discStates, lastCall.state, 1)>>
        /\ discStates = <<<<0, 1>>, <<0, 2>>>> =>
              /\ result.value[1] = 3 * lastCall.state[1] + lastCall.state[2]
              /\ lastCall.state = <<0, 0>> => result.value[1] = 0
              /\ lastCall.state = <<0, 1>> => result.value[1] = 1
              /\ lastCall.state = <<0, 2>> => result.value[1] = 2
              /\ lastCall.state = <<1, 0>> => result.value[1] = 3
              /\ lastCall.state = <<1, 1>> => result.value[1] = 4
              /\ lastCall.state = <<1, 2>> => result.value[1] = 5

C2_Witness ==
    /\ EncoderCalled
    /\ discStates = <<<<0, 1>>, <<0, 2>>>>
    /\ lastCall.state = <<1, 0>>
    /\ result.value = <<3>>

\* C3: with no discrete dimension, or only dimensions of size 1, the index
\* returned is 0 whatever the input, and the call returns normally.
C3_Degenerate ==
    (EncoderCalled /\ numDiscStates <= 1) =>
        /\ \A i \in 1..Len(discStates) : discStates[i][1] = discStates[i][2]
        /\ result = Returned(<<0>>)

C3_Witness ==
    /\ EncoderCalled
    /\ discStates = <<<<1, 1>>, <<0, 0>>>>
    /\ numDiscStates = 1
    /\ lastCall.state = <<2, 1>>
    /\ result = Returned(<<0>>)

(***************************************************************************)
(* Properties of the lifecycle (checked under Spec).                       *)
(***************************************************************************)
\* the fused vector of an observation: the discrete index, then the
\* continuous features
Fused(obs) == <<ToFloat(MixedRadix(discStates, obs.intArray, 1))>> \o obs.doubleArray

Experiences(log) == {i \in 1..Len(log) : log[i].op = "updateExperience"}
ActionRequests(log) == {i \in 1..Len(log) : log[i].op = "getAction"}
Constructions(log) == {i \in 1..Len(log) : log[i].op = "construct"}

\* C4: agent_end(reward) hands the planner exactly one experience tuple: the
\* fused stored observation, the stored last action, the terminal marker in
\* place of a next state, and the reward; it requests no action.
C4_EndSubmitsTerminal ==
    lastCall.op = "agent_end" =>
        /\ Cardinality(Experiences(callLog)) = 1
        /\ ActionRequests(callLog) = {}
        /\ callLog[1].state = PyArray(Fused(heap[lastObservation]))
        /\ callLog[1].action = heap[lastAction].intArray[1]
        /\ callLog[1].reward = lastCall.reward
        /\ callLog[1].nextState = PyNone
        /\ callLog[1].nextState.type # "ndarray"

C4_Witness ==
    /\ lastCall = [op |-> "agent_end", reward |-> 20]
    /\ result.kind = "return"
    /\ discStates = <<<<0, 1>>>>
    /\ callLog = <<UpdateExperience(PyArray(<<10, 5>>), 0, PyNone, 20)>>

\* C5: agent_step(reward, obs) hands the planner exactly one experience
\* tuple, before anything else: the fused observation and the action of the
\* preceding start/step, the fused obs, and the reward; an action requested
\* of the planner afterwards is requested for the fused obs.
C5_StepSubmitsThenChooses ==
    [][(lastCall'.op = "agent_step" /\ ~EnvMutate) =>
        /\ Experiences(callLog') = {1}
        /\ callLog'[1] = UpdateExperience(PyArray(Fused(lastCall.observation)), result.value[1],
                                          PyArray(Fused(lastCall'.observation)), lastCall'.reward)
        /\ \A i \in ActionRequests(callLog') : callLog'[i].state = Fused(lastCall'.observation)
        /\ result'.kind = "return" =>
              /\ Len(callLog') = 3
              /\ callLog'[3].op \in {"getAction", "randint"}
              /\ callLog'[3].op = "randint" => result'.value[1] = callLog'[3].value
    ]_vars

C5_Witness ==
    /\ lastCall = [op |-> "agent_step", reward |-> 10,
                   observation |-> [intArray |-> <<1>>, doubleArray |-> <<7>>]]
    /\ result = Returned(<<0>>)
    /\ callLog[1] = UpdateExperience(PyArray(<<0, 5>>), 1, PyArray(<<10, 7>>), 10)
    /\ callLog[3] = GetAction(<<10, 7>>)

\* C6: with epsilon = 0 and a planner that always selects one fixed action,
\* every agent_start and agent_step returns that action.
C6_DeterministicExploitation ==
    (/\ epsilon = 0
     /\ planner_class.kind = "stub"
     /\ lastCall.op \in {"agent_start", "agent_step"})
        => result = Returned(<<planner_class.action>>)

C6_Witness ==
    /\ epsilon = 0
    /\ planner_class.kind = "stub"
    /\ lastCall.op = "agent_step"
    /\ lastCall.observation.intArray = <<2, 0>>
    /\ result = Returned(<<StubAction>>)

\* the scenario of C7: one continuous observation, discrete dimensions
\* [[0,1]], two actions, epsilon 0, a planner that always selects action 1
ScenarioAgent ==
    /\ numStates = 1
    /\ discStates = <<<<0, 1>>>>
    /\ numActions = 2
    /\ epsilon = 0
    /\ planner_class = [kind |-> "stub", action |-> 1]
ObsA == [intArray |-> <<0>>, doubleArray |-> <<5>>]
ObsB == [intArray |-> <<1>>, doubleArray |-> <<7>>]

\* C7: on that agent start([0.5],[0]) returns 1 and records no experience;
\* the step(1.0, ([0.7],[1])) after it records exactly ([0,0.5], 1, [1,0.7],
\* 1.0) and returns 1; the end(2.0) after that records exactly
\* ([1,0.7], 1, terminal marker, 2.0).
C7_EndToEnd ==
    [][ScenarioAgent =>
        /\ (lastCall' = [op |-> "agent_start", observation |-> ObsA] /\ StartCall)
              => /\ result' = Returned(<<1>>)
                 /\ Experiences(callLog') = {}
        /\ (/\ lastCall = [op |-> "agent_start", observation |-> ObsA]
            /\ lastCall' = [op |-> "agent_step", reward |-> 10, observation |-> ObsB]
            /\ StepCall)
              => /\ Experiences(callLog') = {1}
                 /\ callLog'[1] = UpdateExperience(PyArray(<<0, 5>>), 1, PyArray(<<10, 7>>), 10)
                 /\ result' = Returned(<<1>>)
        /\ (/\ lastCall = [op |-> "agent_step", reward |-> 10, observation |-> ObsB]
            /\ lastCall' = [op |-> "agent_end", reward |-> 20]
            /\ EndCall)
              => callLog' = <<UpdateExperience(PyArray(<<10, 7>>), 1, PyNone, 20)>>
    ]_vars

C7_Witness ==
    /\ ScenarioAgent
    /\ lastCall = [op |-> "agent_end", reward |-> 20]
    /\ result.kind = "return"
    /\ callLog = <<UpdateExperience(PyArray(<<10, 7>>), 1, PyNone, 20)>>

\* C8: the stored context is a copy.  A change the caller makes to its
\* observation or action object leaves the stored ones as they were; during
\* an episode they hold the values of the last start/step as passed and as
\* returned; the tuple of the next step or end is built from those values.
C8_ContextIsSnapshot ==
    [][/\ EnvMutate => /\ heap'[lastObservation'] = heap[lastObservation]
                       /\ heap'[lastAction'] = heap[lastAction]
       /\ phase' = "InEpisode" => /\ heap'[lastObservation'] = lastCall'.observation
                                  /\ heap'[lastAction'] = ActionObj(result'.value[1])
       /\ (lastCall'.op \in {"agent_step", "agent_end"} /\ ~EnvMutate)
             => /\ callLog'[1].state = PyArray(Fused(lastCall.observation))
                /\ callLog'[1].action = result.value[1]
    ]_vars

C8_Witness ==
    /\ lastCall.op = "agent_end"
    /\ result.kind = "return"
    /\ heap["envObs"] # heap[lastObservation]
    /\ heap["envObs"].doubleArray = <<7, 5>>
    /\ callLog[1].state = PyArray(<<0, 5, 7>>)

\* what C9 names as grounds for rejecting a parsed task spec
Rejectable(ts) ==
    \/ Len(ts.doubleObs) = 0 /\ Len(ts.intObs) = 0
    \/ Len(ts.intActions) # 1
    \/ Len(ts.doubleActions) > 0
    \/ \E i \in 1..Len(ts.intActions) :
          isSpecial(ts.intActions[i][1]) \/ isSpecial(ts.intActions[i][2])

\* C9: agent_init on a parsed task spec with no state feature, with other
\* than one discrete action dimension, with a continuous action dimension or
\* with a special action bound ends in an error and constructs neither a
\* Model nor a Planner.
C9_InitRejects ==
    [][(/\ lastCall'.op = "agent_init"
        /\ InitCall
        /\ lastCall'.taskSpec.valid
        /\ Rejectable(lastCall'.taskSpec))
          => /\ result'.kind = "raise"
             /\ result'.exc = "AssertionError"
             /\ Constructions(callLog') = {}
             /\ model' = model
             /\ planner' = planner
             /\ phase' # "Ready"
    ]_vars

C9_Witness ==
    /\ lastCall.op = "agent_init"
    /\ lastCall.taskSpec = TaskSpecOf(TRUE, <<ContRange>>, <<<<0, 1>>>>, <<<<Num(0), Num(1)>>>>, <<ContRange>>)
    /\ model.type = "Model"
    /\ model.doubleObs = <<ContRange, ContRange>>
    /\ result = Raised("AssertionError", "expecting no continuous actions")

\* an error that tells the user what is wrong with the task spec
DescriptiveMessages ==
    {"Task Spec could not be parsed: ",
     "expecting at least one continuous or discrete observation",
     "expecting 1-dimensional discrete actions",
     "expecting no continuous actions",
     " expecting min action to be a number not a special value",
     " expecting max action to be a number not a special value"}

\* C10: agent_init on a task spec that cannot be parsed ends in a
\* descriptive error, does not return normally, constructs neither a Model
\* nor a Planner, and leaves the agent short of Ready.
C10_UnparsedAborts ==
    (lastCall.op = "agent_init" /\ ~lastCall.taskSpec.valid) =>
        /\ result.kind = "raise"
        /\ result.msg \in DescriptiveMessages
        /\ Constructions(callLog) = {}
        /\ phase # "Ready"

\* the lifecycle calls C11 speaks of
LifecycleOps == {"agent_init", "agent_start", "agent_step", "agent_end"}

\* C11: every lifecycle call is all-or-nothing: when agent_init, agent_start,
\* agent_step or agent_end fails, the agent's fields (numStates, discStates,
\* numDiscStates, numActions, model, planner, lastAction, lastObservation)
\* are what they were before the call, and the call has recorded no
\* experience.
C11_AllOrNothing ==
    [][(result'.kind = "raise" /\ lastCall'.op \in LifecycleOps) =>
        /\ agentFields' = agentFields
        /\ heap'[lastAction'] = heap[lastAction]
        /\ heap'[lastObservation'] = heap[lastObservation]
        /\ Experiences(callLog') = {}
    ]_vars

\* the places of a call's record where a number was drawn for line 92
Draws(log) == {i \in 1..Len(log) : log[i].op = "random"}

EpisodeContext == [action |-> heap[lastAction], observation |-> heap[lastObservation]]

\* C13: after an agent_start(obs) or agent_step(reward, obs) that returned
\* the action a, whether a was drawn at random or selected by the planner,
\* the Episode Context is (a, obs): the stored action holds exactly a and
\* the stored observation is exactly obs, nothing of the previous context
\* remaining.
C13_ContextIsLastExchange ==
    (lastCall.op \in {"agent_start", "agent_step"} /\ result.kind = "return") =>
        /\ EpisodeContext.action.intArray = result.value
        /\ EpisodeContext.action.doubleArray = <<>>
        /\ EpisodeContext.observation = lastCall.observation
        /\ \A i \in 1..Len(callLog) :
              callLog[i].op = "randint" => EpisodeContext.action.intArray = <<callLog[i].value>>

C13_Witness ==
    /\ lastCall = [op |-> "agent_step", reward |-> 20,
                   observation |-> [intArray |-> <<1, 1>>, doubleArray |-> <<>>]]
    /\ callLog[1].state = PyArray(<<30>>)
    /\ callLog[3].op = "getAction"
    /\ result = Returned(<<0>>)
    /\ EpisodeContext = [action |-> ActionObj(0), observation |-> lastCall.observation]

\* v is a fused vector of the observation obs: one entry more than there are
\* continuous features, the encoded discrete index first, then the features
IsFusedOf(v, obs) ==
    /\ Len(v) = numStates + 1
    /\ Len(v) = Len(obs.doubleArray) + 1
    /\ v[1] = ToFloat(MixedRadix(discStates, obs.intArray, 1))
    /\ \A j \in 1..Len(obs.doubleArray) : v[j + 1] = obs.doubleArray[j]

\* C14: every vector agent_start, agent_step and agent_end hand to the
\* planner (the argument of getAction, the state of an experience tuple and
\* its next state unless that is the terminal marker) has numStates + 1
\* entries, the encoded discrete index first and then the continuous
\* features of the observation it stands for, in their order; numStates, and
\* so the length, is the same from one planner call to the next.
C14_FusedVectorLayout ==
    [][(/\ lastCall'.op \in {"agent_start", "agent_step", "agent_end"}
        /\ ~EnvMutate)
          => /\ numStates' = numStates
             /\ \A i \in 1..Len(callLog') :
                   /\ callLog'[i].op = "getAction" =>
                         IsFusedOf(callLog'[i].state, lastCall'.observation)
                   /\ callLog'[i].op = "updateExperience" =>
                         /\ callLog'[i].state.type = "ndarray"
                         /\ IsFusedOf(callLog'[i].state.val, heap[lastObservation])
                         /\ callLog'[i].nextState.type = "ndarray" =>
                               IsFusedOf(callLog'[i].nextState.val, lastCall'.observation)
    ]_vars

C14_Witness ==
    /\ lastCall.op = "agent_step"
    /\ numStates = 2
    /\ lastCall.observation = [intArray |-> <<>>, doubleArray |-> <<7, 5>>]
    /\ callLog[1].state = PyArray(<<0, 5, 7>>)
    /\ callLog[1].nextState = PyArray(<<0, 7, 5>>)
    /\ callLog[3] = GetAction(<<0, 7, 5>>)

\* the values agent_init derives from the task spec
taskValues == <<discStates, numDiscStates, numStates, numActions>>
AfterInit == {"agent_start", "agent_step", "agent_end", "agent_cleanup", "agent_message"}

\* C15: once agent_init has succeeded, no agent_start, agent_step, agent_end,
\* agent_cleanup or agent_message changes discStates, numDiscStates,
\* numStates or numActions: after any sequence of them the values are still
\* those the Model was built with.
C15_TaskValuesFixed ==
    [][/\ lastCall'.op \in AfterInit => taskValues' = taskValues
       /\ phase' \in {"Ready", "InEpisode", "CleanedUp"} =>
             /\ numStates' = Len(model'.doubleObs)
             /\ numDiscStates' = model'.numDiscStates
             /\ numDiscStates' = NumDiscStatesOf(discStates')
             /\ numActions' = model'.numActions
    ]_vars

C15_Witness ==
    /\ lastCall.op = "agent_cleanup"
    /\ phase = "CleanedUp"
    /\ heap[lastObservation] = [intArray |-> <<2, 0>>, doubleArray |-> <<>>]
    /\ taskValues = <<<<<<1, 2>>, <<0, 1>>>>, 4, 0, 2>>

\* C16: after every agent_init that returns, the agent holds a Model
\* constructed in that call from (numDiscStates, the continuous observation
\* ranges, numActions, the lower bound of the reward range) and a Planner
\* constructed in that call from (gamma, that Model), and its stored action
\* and observation are new empty objects of its own.
C16_InitBuildsAfresh ==
    (lastCall.op = "agent_init" /\ result.kind = "return") =>
        LET ts == lastCall.taskSpec
        IN  /\ Len(callLog) = 2
            /\ callLog[1] = [op |-> "construct", instance |-> model]
            /\ callLog[2] = [op |-> "construct", instance |-> planner]
            /\ model = [type |-> "Model", numDiscStates |-> numDiscStates,
                        doubleObs |-> ts.doubleObs, numActions |-> numActions,
                        rewardMin |-> ts.rewardRange[1]]
            /\ ts.rewardRange[1] <= ts.rewardRange[2]
            /\ numDiscStates = Cardinality(Combos(ts.intObs))
            /\ numActions = ts.intActions[1][2].val + 1
            /\ planner = [type |-> "Planner", class |-> planner_class,
                          gamma |-> gamma, model |-> model]
            /\ heap[lastAction] = EmptyObj
            /\ heap[lastObservation] = EmptyObj
            /\ lastAction # lastObservation
            /\ {lastAction, lastObservation} \cap {"envAct", "envObs"} = {}

C16_Witness ==
    /\ lastCall.op = "agent_init"
    /\ result.kind = "return"
    /\ heap["envObs"] = [intArray |-> <<2, 1>>, doubleArray |-> <<>>]
    /\ heap["envAct"] = ActionObj(1)
    /\ model.doubleObs = <<ContRange, ContRange>>
    /\ model.numDiscStates = 1
    /\ heap[lastObservation] = EmptyObj

\* the tuples of the episode that carry the terminal marker
Terminals(tuples) == {i \in 1..Len(tuples) : tuples[i] = PyNone.type}

\* C17: in an episode of agent_start, n agent_step calls and agent_end the
\* planner is handed exactly n + 1 experience tuples: none by agent_start,
\* one with a next state by each agent_step, and one by agent_end, which is
\* the last of the episode and the only one with the terminal marker.
C17_EpisodeTupleCount ==
    /\ lastCall.op = "agent_start" =>
          /\ Experiences(callLog) = {}
          /\ episode = [steps |-> 0, tuples |-> <<>>]
    /\ lastCall.op = "agent_step" =>
          /\ Cardinality(Experiences(callLog)) = 1
          /\ episode.steps >= 1
          /\ Len(episode.tuples) = episode.steps
          /\ Terminals(episode.tuples) = {}
    /\ lastCall.op = "agent_end" =>
          /\ Cardinality(Experiences(callLog)) = 1
          /\ Len(episode.tuples) = episode.steps + 1
          /\ Terminals(episode.tuples) = {Len(episode.tuples)}

C17_Witness ==
    /\ lastCall.op = "agent_end"
    /\ result.kind = "return"
    /\ phase = "Ready"
    /\ episode = [steps |-> MaxSteps, tuples |-> [i \in 1..(MaxSteps + 1) |->
                    IF i = MaxSteps + 1 THEN "NoneType" ELSE "ndarray"]]

\* C18: the experience tuples of an episode form a chain.  The state of the
\* first is the fused observation of the agent_start that opened the
\* episode; the state of every later one is the next state of the tuple
\* handed over just before it; the action of each is the action the
\* preceding call returned to the environment.  Nothing of an earlier
\* episode enters a tuple.
C18_EpisodeChain ==
    [][(lastCall'.op \in {"agent_step", "agent_end"} /\ ~EnvMutate) =>
        LET t == callLog'[1]
        IN  /\ t.op = "updateExperience"
            /\ episode.tuples = <<>> =>
                  /\ lastCall.op = "agent_start"
                  /\ t.state = PyArray(Fused(lastCall.observation))
            /\ episode.tuples # <<>> =>
                  /\ lastCall.op = "agent_step"
                  /\ callLog[1].op = "updateExperience"
                  /\ t.state = callLog[1].nextState
            /\ result.kind = "return"
            /\ t.action = result.value[1]
    ]_vars

C18_Witness ==
    /\ lastCall.op = "agent_end"
    /\ result.kind = "return"
    /\ episode.steps = 2
    /\ discStates = <<<<0, 1>>>>
    /\ heap["envObs"] = [intArray |-> <<0>>, doubleArray |-> <<5>>]
    /\ callLog[1] = UpdateExperience(PyArray(<<10, 7>>), 0, PyNone, 10)

\* C19: agent_end changes no field of the agent: the stored action and
\* observation, references and values, are after the call what they were
\* before it, and so are the task values, the model, the planner and
\* epsilon.  The context of a finished episode stays until an agent_start
\* or an agent_init replaces it.
C19_EndKeepsContext ==
    [][/\ (lastCall'.op = "agent_end" /\ EndCall) =>
             /\ agentFields' = agentFields
             /\ EpisodeContext' = EpisodeContext
             /\ epsilon' = epsilon
             /\ planner_class' = planner_class
       /\ (phase = "Ready" /\ EpisodeContext' # EpisodeContext) =>
             lastCall'.op \in {"agent_start", "agent_init"}
    ]_vars

C19_Witness ==
    /\ lastCall.op = "agent_message"
    /\ phase = "Ready"
    /\ episode = [steps |-> 1, tuples |-> <<"ndarray", "NoneType">>]
    /\ EpisodeContext = [action |-> ActionObj(1),
                         observation |-> [intArray |-> <<1>>, doubleArray |-> <<7>>]]

====
